---- MODULE Spec2Model ----
(***************************************************************************)
(* Lectra: retrieval-augmented generation pipeline with conversation       *)
(* memory.  The model covers the vector index (Pinecone), the ingestion    *)
(* pipeline behind POST /api/ingest, the vector delete endpoint, the       *)
(* answer pipeline behind POST /api/ask and the chats table.               *)
(***************************************************************************)
EXTENDS Integers, Sequences, FiniteSets, TLC

(***************************************************************************)
(* Bounds of the model.                                                    *)
(***************************************************************************)
\* The Unix clock (seconds) takes the values 0..MaxClock.
MaxClock == 1
\* Number of POST /api/ingest requests accepted in one behaviour.
MaxIngests == 2
\* Number of POST /api/ask requests accepted in one behaviour.
MaxAsks == 2
\* Number of chats stored by earlier sessions where asking starts from a filled table.
SeedTurns == 5
\* Submit events on the chat page, clicks on its Clear button that are
\* confirmed, and chats in the response of its history request.
MaxSubmits == 3
MaxClears == 1
MaxHistory == 1
\* Flashcards in each of the two lists of the flashcards page, and presses
\* of a rating button.
MaxCards == 3
MaxReviews == 2
MaxUploads == 2
MaxStamp == 2
\* The text splitter is run on every text of at most MaxTextLen characters,
\* with every chunk size in 1..MaxChunkSize and every smaller overlap.
MaxTextLen == 4
MaxChunkSize == 3

(***************************************************************************)
(* Program configuration.                                                  *)
(***************************************************************************)
CHUNK_SIZE == 1000
CHUNK_OVERLAP == 200
\* Default number of attempts of a retryable call.
MAX_ATTEMPTS == 3

Users == {"A", "B"}
\* Two concurrent request handlers of POST /api/ingest.
Reqs == {"r1", "r2"}
\* Maximum file size in megabytes.
MAX_FILE_SIZE_MB == 10

\* Public URLs of files in the user-docs bucket.  url3 is a longer document,
\* url4 a file above the size limit and url5 a text of three chunks; they are
\* ingested only where one request runs at a time.
Urls == {"url1", "url2"}
AllUrls == Urls \cup {"url3", "url4", "url5"}

\* Size of the downloaded file in megabytes, rounded up.
FileSizeMB(url) == IF url = "url4" THEN 16 ELSE 1

\* Characters of text extracted from the file behind a URL.
DocLen(url) ==
    CASE url = "url1" -> 1800
      [] url = "url2" -> 500
      [] url = "url5" -> 2600
      [] OTHER        -> 4200

\* File name taken from the last segment of the URL (the request's file_name
\* is optional and the frontend never sends it).
FileNameOf(url) ==
    CASE url = "url1" -> "1.pdf"
      [] url = "url2" -> "2.txt"
      [] url = "url3" -> "3.txt"
      [] url = "url4" -> "4.pdf"
      [] OTHER        -> "5.txt"

(***************************************************************************)
(* Chunker: windows of CHUNK_SIZE characters, each starting                *)
(* CHUNK_SIZE - CHUNK_OVERLAP after the previous one; the last chunk is    *)
(* what remains.  A chunk is the span [from, to) of the text.              *)
(***************************************************************************)
RECURSIVE ChunkWalk(_, _)
ChunkWalk(start, len) ==
    IF start + CHUNK_SIZE >= len
    THEN << [from |-> start, to |-> len] >>
    ELSE << [from |-> start, to |-> start + CHUNK_SIZE] >>
         \o ChunkWalk(start + CHUNK_SIZE - CHUNK_OVERLAP, len)

split_text(len) == ChunkWalk(0, len)

(***************************************************************************)
(* The text splitter on the characters of a text:                          *)
(* RecursiveCharacterTextSplitter(chunk_size, chunk_overlap).  A text is a *)
(* sequence of one-character strings.  Of the splitter's separators        *)
(* "\n\n", "\n", " ", "" the texts of the model can contain only the last  *)
(* two.  On a text without separator it produces the windows of ChunkWalk. *)
(***************************************************************************)
Chars == {"a", "b", " "}
Texts == UNION { [1 .. n -> Chars] : n \in 0 .. MaxTextLen }

RECURSIVE Flatten(_)
Flatten(pieces) ==
    IF pieces = << >> THEN << >> ELSE Head(pieces) \o Flatten(Tail(pieces))

\* str.strip()
RECURSIVE Strip(_)
Strip(text) ==
    IF text = << >> THEN << >>
    ELSE IF Head(text) = " " THEN Strip(Tail(text))
    ELSE IF text[Len(text)] = " " THEN Strip(SubSeq(text, 1, Len(text) - 1))
    ELSE text

\* Splitting at " " with the separator kept at the head of the piece it
\* precedes; empty pieces are dropped.
RECURSIVE SplitKeepingSeparator(_)
SplitKeepingSeparator(text) ==
    IF text = << >> THEN << >>
    ELSE LET cuts == { i \in 2 .. Len(text) : text[i] = " " }
         IN  IF cuts = {} THEN << text >>
             ELSE LET j == CHOOSE i \in cuts : \A k \in cuts : i <= k
                  IN  << SubSeq(text, 1, j - 1) >>
                      \o SplitKeepingSeparator(SubSeq(text, j, Len(text)))

\* _join_docs: the pieces joined and stripped; nothing when the result is empty.
JoinDocs(pieces) ==
    IF Strip(Flatten(pieces)) = << >> THEN << >> ELSE << Strip(Flatten(pieces)) >>

\* The pieces kept as overlap when a chunk is closed before piece d: pieces
\* are dropped from the front while they are longer than the overlap or do
\* not leave room for d.
RECURSIVE KeepOverlap(_, _, _, _)
KeepOverlap(current, d, size, overlap) ==
    LET total == Len(Flatten(current))
    IN  IF total > overlap \/ (total + Len(d) > size /\ total > 0)
        THEN KeepOverlap(Tail(current), d, size, overlap)
        ELSE current

\* _merge_splits: pieces are collected into chunks of at most `size`
\* characters; a closed chunk leaves its last pieces as overlap.
RECURSIVE MergeFrom(_, _, _, _, _, _)
MergeFrom(splits, i, current, docs, size, overlap) ==
    IF i > Len(splits)
    THEN docs \o JoinDocs(current)
    ELSE LET d == splits[i]
             closes == Len(Flatten(current)) + Len(d) > size /\ current # << >>
         IN  IF closes
             THEN MergeFrom(splits, i + 1,
                            Append(KeepOverlap(current, d, size, overlap), d),
                            docs \o JoinDocs(current), size, overlap)
             ELSE MergeFrom(splits, i + 1, Append(current, d), docs, size, overlap)

merge_splits(splits, size, overlap) == MergeFrom(splits, 1, << >>, << >>, size, overlap)

\* _split_text: the text is split at the first separator of the list that it
\* contains; pieces shorter than `size` are merged, a longer piece is split
\* again with the remaining separators, or kept whole when none remains.
RECURSIVE SplitWith(_, _, _, _)
RECURSIVE SplitPieces(_, _, _, _, _, _, _)
SplitPieces(splits, i, good, final, atSpace, size, overlap) ==
    LET merged == IF good = << >> THEN << >> ELSE merge_splits(good, size, overlap)
    IN  IF i > Len(splits)
        THEN final \o merged
        ELSE IF Len(splits[i]) < size
        THEN SplitPieces(splits, i + 1, Append(good, splits[i]), final, atSpace,
                         size, overlap)
        ELSE SplitPieces(splits, i + 1, << >>,
                         final \o merged
                               \o (IF atSpace
                                   THEN SplitWith(splits[i], FALSE, size, overlap)
                                   ELSE << splits[i] >>),
                         atSpace, size, overlap)

SplitWith(text, spaceLeft, size, overlap) ==
    LET atSpace == spaceLeft /\ \E i \in 1 .. Len(text) : text[i] = " "
        splits  == IF atSpace
                   THEN SplitKeepingSeparator(text)
                   ELSE [ i \in 1 .. Len(text) |-> << text[i] >> ]
    IN  SplitPieces(splits, 1, << >>, << >>, atSpace, size, overlap)

\* split_text(text) of the splitter built with chunk_size and chunk_overlap.
RecursiveCharacterTextSplitter(text, size, overlap) ==
    SplitWith(text, TRUE, size, overlap)

(***************************************************************************)
(* Embedding service stand-in: a deterministic small "vector" per chunk.   *)
(***************************************************************************)
EmbeddingOf(url, i) == ((IF url = "url1" THEN 0 ELSE 1) + i) % 3

\* Similarity of a query vector and a stored vector (higher is closer).
Score(q, e) == 2 - (IF q >= e THEN q - e ELSE e - q)

(***************************************************************************)
(* Vector records.                                                         *)
(***************************************************************************)
\* "id": "user_id_filename_index_timestamp".  user_id is a UUID, index and
\* timestamp are integers, so the joined string determines its four parts:
\* the id is modelled as the tuple.
VectorId(user_id, file_name, chunk_index, timestamp) ==
    << user_id, file_name, chunk_index, timestamp >>

VectorMetadata(user_id, url, chunk_index, total_chunks, timestamp) ==
    [ user_id      |-> user_id,
      file_name    |-> FileNameOf(url),
      file_url     |-> url,
      chunk_index  |-> chunk_index,
      chunk_text   |-> split_text(DocLen(url))[chunk_index + 1],
      total_chunks |-> total_chunks,
      timestamp    |-> timestamp ]

MakeVector(user_id, url, chunk_index, total_chunks, timestamp) ==
    [ id       |-> VectorId(user_id, FileNameOf(url), chunk_index, timestamp),
      values   |-> EmbeddingOf(url, chunk_index),
      metadata |-> VectorMetadata(user_id, url, chunk_index, total_chunks, timestamp) ]

\* The owner under which a stored vector was upserted: upsert_vectors puts the
\* user_id it was called with at the head of the vector id.
UpsertedUnder(v) == v.id[1]

(***************************************************************************)
(* State.                                                                  *)
(***************************************************************************)
VARIABLES
    clock,       \* Unix time in seconds, read when vectors are upserted
    index,       \* the Pinecone index: a set of vector records, one per id
    ing,         \* ing[r]: the ingestion request handled by r
    ingests,     \* number of ingest requests accepted so far
    pre,         \* pre[r]: vectors of r's document stored when r was received
    written,     \* written[r]: vectors r has upserted in its current run
    touched,     \* touched[r]: who else changed r's document since r was received
    overlapped,  \* the current runs of r1 and r2 were in progress at the same time
    lastWriter,  \* the request that performed the most recent upsert
    purgePolicy  \* whether the pipeline deletes a document's vectors before upserting

ingVars == << clock, index, ing, ingests, pre, written, touched, overlapped, lastWriter,
              purgePolicy >>

VARIABLES
    chats,       \* rows of public.chats in created_at order
    ask,         \* the POST /api/ask request being handled
    asks         \* number of ask requests accepted so far

askVars == << chats, ask, asks >>

VARIABLES
    chk          \* one run of the text splitter: its text, parameters and chunks

VARIABLES
    page,        \* the chat page (pages/chat.tsx): React state and requests in flight
    cards,       \* the flashcards page (pages/flashcards.tsx)
    upl          \* the upload component (components/FileUpload.tsx)

uiVars == << page, cards, upl >>

vars == << clock, index, ing, ingests, pre, written, touched, overlapped, lastWriter,
           purgePolicy, chats, ask, asks, chk, page, cards, upl >>

Stages == << "Received", "TextExtracted", "Chunked", "Embedded", "Stored", "Complete" >>
\* A pipeline that goes from the download straight to the chunks.
StageAfterSkipping(s) ==
    IF s = "Received" THEN "Chunked" ELSE "Complete"

\* The stage that follows s on the success path.
StageAfter(s) ==
    LET i == CHOOSE k \in 1 .. (Len(Stages) - 1) : Stages[k] = s
    IN  Stages[i + 1]

NonTerminal == {"Received", "TextExtracted", "Chunked", "Embedded", "Stored"}
Resting == {"Idle", "Complete", "Failed"}

NoReport == [ succeeded |-> 0, failed |-> 0, chunks_created |-> 0, vectors_stored |-> 0 ]

IdleRequest ==
    [ stage |-> "Idle", user_id |-> "A", file_url |-> "url1", purge |-> FALSE,
      purged |-> FALSE, chunks |-> 0, embedded |-> 0, attempts |-> 0,
      reason |-> "none", report |-> NoReport ]

NewRequest(u, url, p) ==
    [ IdleRequest EXCEPT !.stage = "Received", !.user_id = u, !.file_url = url,
                         !.purge = p ]

OtherReq(r) == CHOOSE o \in Reqs : o # r

\* The document of a request is (user_id, file_name).
SameDoc(r, u, f) ==
    /\ ing[r].stage # "Idle"
    /\ ing[r].user_id = u
    /\ FileNameOf(ing[r].file_url) = f

(***************************************************************************)
(* Vector store service.                                                   *)
(***************************************************************************)
\* A delete filter that matches on the owner alone.
DeleteFilterOwnerOnly(user_id, file_name, v) == v.metadata.user_id = user_id

\* Filter of delete_user_vectors(user_id, file_name).
DeleteFilter(user_id, file_name, v) ==
    /\ v.metadata.user_id = user_id
    /\ v.metadata.file_name = file_name

delete_user_vectors(idx, user_id, file_name) ==
    { v \in idx : ~DeleteFilter(user_id, file_name, v) }

\* The stored vectors of document (user_id, file_name).
DocVectors(idx, user_id, file_name) ==
    { v \in idx : v.metadata.user_id = user_id /\ v.metadata.file_name = file_name }

\* Pinecone upsert: a vector with a stored id replaces the stored one.
upsert(idx, vs) ==
    { v \in idx : \A w \in vs : w.id # v.id } \cup vs

\* An upsert that leaves out the first chunk.
BuildVectorsSkippingFirst(user_id, url, n, t) ==
    { MakeVector(user_id, url, i, n, t) : i \in 1 .. (n - 1) }

\* The vectors upsert_vectors builds for a document of n chunks at time t.
BuildVectors(user_id, url, n, t) ==
    { MakeVector(user_id, url, i, n, t) : i \in 0 .. (n - 1) }

\* Records the actor with the requests, other than the actor, whose document is (u, f).
Touch(actor, u, f) ==
    [ r \in Reqs |-> IF r # actor /\ SameDoc(r, u, f)
                     THEN touched[r] \cup {actor} ELSE touched[r] ]

(***************************************************************************)
(* Ingestion pipeline, POST /api/ingest { file_url, user_id }.             *)
(***************************************************************************)
ReceiveIngest(r, u, url) ==
    /\ ing[r].stage \in Resting
    /\ ingests < MaxIngests
    /\ ingests' = ingests + 1
    /\ ing' = [ing EXCEPT ![r] = NewRequest(u, url, purgePolicy)]
    /\ pre' = [pre EXCEPT ![r] = DocVectors(index, u, FileNameOf(url))]
    /\ written' = [written EXCEPT ![r] = {}]
    /\ touched' = [touched EXCEPT ![r] = {}]
    /\ overlapped' = (ing[OtherReq(r)].stage \in NonTerminal)
    /\ UNCHANGED << clock, index, lastWriter, purgePolicy, askVars, chk, uiVars >>

\* A download that enforces no size limit.
WithinSizeLimitAlways(url) == TRUE

\* The downloaded file is within MAX_FILE_SIZE_MB.
WithinSizeLimit(url) == FileSizeMB(url) <= MAX_FILE_SIZE_MB

\* Steps 1 and 2: download the file and extract its text.
ExtractText(r) ==
    /\ ing[r].stage = "Received"
    /\ WithinSizeLimit(ing[r].file_url)
    /\ ing' = [ing EXCEPT ![r].stage = StageAfter(@)]
    /\ UNCHANGED << clock, index, ingests, pre, written, touched, overlapped, lastWriter, purgePolicy, askVars, chk, uiVars >>

\* Step 3: split the text into chunks.
SplitText(r) ==
    /\ ing[r].stage = "TextExtracted"
    /\ ing' = [ing EXCEPT ![r].stage = StageAfter(@),
                          ![r].chunks = Len(split_text(DocLen(ing[r].file_url)))]
    /\ UNCHANGED << clock, index, ingests, pre, written, touched, overlapped, lastWriter, purgePolicy, askVars, chk, uiVars >>

\* Step 4: one successful embedding call.
EmbedChunk(r) ==
    /\ ing[r].stage = "Chunked"
    /\ ing[r].embedded < ing[r].chunks
    /\ ing' = [ing EXCEPT ![r].embedded = @ + 1,
                          ![r].attempts = 0,
                          ![r].stage = IF ing[r].embedded + 1 = ing[r].chunks
                                       THEN StageAfter(@) ELSE @]
    /\ UNCHANGED << clock, index, ingests, pre, written, touched, overlapped, lastWriter, purgePolicy, askVars, chk, uiVars >>

\* A report that counts a partly embedded document as wholly failed.
FailureReportAllFailed(q) ==
    [ NoReport EXCEPT !.failed = q.chunks ]

\* What a failed ingestion reports: the chunks embedded before the failure.
FailureReport(q) ==
    [ NoReport EXCEPT !.succeeded = q.embedded, !.failed = q.chunks - q.embedded ]

Failed(q, why) ==
    [ q EXCEPT !.stage = "Failed", !.reason = why, !.report = FailureReport(q) ]

\* A retry policy without a limit.
MayRetryAlways(attempts) == TRUE

\* A retryable call may be attempted again while fewer than MAX_ATTEMPTS were made.
MayRetry(attempts) == attempts < MAX_ATTEMPTS

\* A transient failure of a retryable call: retry, or give up with `why`.
AfterTransientFailure(q, why) ==
    IF MayRetry(q.attempts + 1)
    THEN [ q EXCEPT !.attempts = @ + 1 ]
    ELSE Failed([ q EXCEPT !.attempts = @ + 1 ], why)

EmbedTransientError(r) ==
    /\ ing[r].stage = "Chunked"
    /\ ing' = [ing EXCEPT ![r] = AfterTransientFailure(@, "EmbeddingUnavailable")]
    /\ UNCHANGED << clock, index, ingests, pre, written, touched, overlapped, lastWriter, purgePolicy, askVars, chk, uiVars >>

\* Permanent error (invalid credentials): abort the whole document.
EmbedPermanentError(r) ==
    /\ ing[r].stage = "Chunked"
    /\ ing' = [ing EXCEPT ![r] = Failed(@, "EmbeddingRejected")]
    /\ UNCHANGED << clock, index, ingests, pre, written, touched, overlapped, lastWriter, purgePolicy, askVars, chk, uiVars >>

\* Re-ingestion policy: delete the document's stored vectors before the upsert.
PurgeOld(r) ==
    /\ ing[r].stage = "Embedded"
    /\ ing[r].purge /\ ~ing[r].purged
    /\ index' = delete_user_vectors(index, ing[r].user_id, FileNameOf(ing[r].file_url))
    /\ ing' = [ing EXCEPT ![r].purged = TRUE]
    /\ touched' = Touch(r, ing[r].user_id, FileNameOf(ing[r].file_url))
    /\ UNCHANGED << clock, ingests, pre, written, overlapped, lastWriter, purgePolicy, askVars, chk, uiVars >>

ReadyToUpsert(q) == q.stage = "Embedded" /\ (q.purge => q.purged)

\* Step 5: store the vectors (one batch of up to 100 vectors).
UpsertVectors(r) ==
    /\ ReadyToUpsert(ing[r])
    /\ LET vs == BuildVectors(ing[r].user_id, ing[r].file_url, ing[r].chunks, clock)
       IN  /\ index' = upsert(index, vs)
           /\ written' = [written EXCEPT ![r] = vs]
    /\ ing' = [ing EXCEPT ![r].stage = StageAfter(@), ![r].attempts = 0]
    /\ touched' = Touch(r, ing[r].user_id, FileNameOf(ing[r].file_url))
    /\ lastWriter' = r
    /\ UNCHANGED << clock, ingests, pre, overlapped, purgePolicy, askVars, chk, uiVars >>

UpsertTransientError(r) ==
    /\ ReadyToUpsert(ing[r])
    /\ ing' = [ing EXCEPT ![r] = AfterTransientFailure(@, "IndexUnavailable")]
    /\ UNCHANGED << clock, index, ingests, pre, written, touched, overlapped, lastWriter, purgePolicy, askVars, chk, uiVars >>

\* Step 8: return { status, vectors_stored, chunks_created }.
CompleteIngest(r) ==
    /\ ing[r].stage = "Stored"
    /\ ing' = [ing EXCEPT ![r].stage = StageAfter(@),
                          ![r].report = [ NoReport EXCEPT
                                            !.succeeded = ing[r].embedded,
                                            !.chunks_created = ing[r].chunks,
                                            !.vectors_stored = Cardinality(written[r]) ]]
    /\ UNCHANGED << clock, index, ingests, pre, written, touched, overlapped, lastWriter, purgePolicy, askVars, chk, uiVars >>

\* The downloaded file exceeds the size limit: 400 Bad Request,
\* "File size (..MB) exceeds maximum allowed size (10MB)".
RejectOversize(r) ==
    /\ ing[r].stage = "Received"
    /\ ~WithinSizeLimit(ing[r].file_url)
    /\ ing' = [ing EXCEPT ![r] = Failed(@, "SizeLimitExceeded")]
    /\ UNCHANGED << clock, index, ingests, pre, written, touched, overlapped, lastWriter, purgePolicy, askVars, chk, uiVars >>

\* The ingestion timeout ends the request in any non-terminal state.
IngestTimeout(r) ==
    /\ ing[r].stage \in NonTerminal
    /\ ing' = [ing EXCEPT ![r] = Failed(@, "Timeout")]
    /\ UNCHANGED << clock, index, ingests, pre, written, touched, overlapped, lastWriter, purgePolicy, askVars, chk, uiVars >>

\* DELETE /api/vectors/{user_id}/{file_name}
DeleteVectors(u, f) ==
    /\ DocVectors(index, u, f) # {}
    /\ index' = delete_user_vectors(index, u, f)
    /\ touched' = Touch("endpoint", u, f)
    /\ UNCHANGED << clock, ing, ingests, pre, written, overlapped, lastWriter, purgePolicy, askVars, chk, uiVars >>

Tick ==
    /\ clock < MaxClock
    /\ clock' = clock + 1
    /\ UNCHANGED << index, ing, ingests, pre, written, touched, overlapped, lastWriter, purgePolicy, askVars, chk, uiVars >>

InitIngest ==
    /\ clock = 0
    /\ index = {}
    /\ ing = [r \in Reqs |-> IdleRequest]
    /\ ingests = 0
    /\ pre = [r \in Reqs |-> {}]
    /\ written = [r \in Reqs |-> {}]
    /\ touched = [r \in Reqs |-> {}]
    /\ overlapped = FALSE
    /\ lastWriter = "none"
    /\ purgePolicy \in BOOLEAN

AllFileNames == { FileNameOf(url) : url \in AllUrls }

(***************************************************************************)
(* Query: POST /api/query, and the retrieval step of /api/ask.             *)
(***************************************************************************)
\* A query that applies no metadata filter.
OwnerFilterMissing(user_id, v) == TRUE

\* "User Isolation: vectors scoped by user_id, metadata filtering in queries".
OwnerFilter(user_id, v) == v.metadata.user_id = user_id

\* A ranking that returns the k worst of S, in ascending score.
RECURSIVE RankAscending(_, _, _)
RankAscending(S, q, k) ==
    IF k = 0 \/ S = {}
    THEN << >>
    ELSE LET worst == CHOOSE v \in S : \A w \in S : Score(q, v.values) <= Score(q, w.values)
         IN  << worst >> \o RankAscending(S \ {worst}, q, k - 1)

\* The k best of S by descending score.
RECURSIVE Rank(_, _, _)
Rank(S, q, k) ==
    IF k = 0 \/ S = {}
    THEN << >>
    ELSE LET best == CHOOSE v \in S : \A w \in S : Score(q, v.values) >= Score(q, w.values)
         IN  << best >> \o Rank(S \ {best}, q, k - 1)

query_vectors(idx, user_id, q, top_k) ==
    Rank({ v \in idx : OwnerFilter(user_id, v) }, q, top_k)

\* Query embeddings and the top_k values of the API (1..10, default 3).
QueryVecs == 0 .. 2
RAG_TOP_K_RETRIEVAL == 3
TopKs == 1 .. RAG_TOP_K_RETRIEVAL

(***************************************************************************)
(* Chat memory: table public.chats behind row level security.              *)
(***************************************************************************)
\* A read of the oldest n chats.
FirstN(seq, n) ==
    IF Len(seq) <= n THEN seq ELSE SubSeq(seq, 1, n)

\* A policy that lets every caller read every row.
ChatsSelectPolicyOpen(uid, row) == TRUE

\* "Users can view own chats":   FOR SELECT USING (auth.uid() = user_id)
ChatsSelectPolicy(uid, row) == uid = row.user_id
\* "Users can insert own chats": FOR INSERT WITH CHECK (auth.uid() = user_id)
ChatsInsertPolicy(uid, row) == uid = row.user_id
\* A policy that lets every caller delete every row.
ChatsDeletePolicyOpen(uid, row) == TRUE
\* "Users can delete own chats": FOR DELETE USING (auth.uid() = user_id)
ChatsDeletePolicy(uid, row) == uid = row.user_id

CHAT_CONTEXT_WINDOW == 3
MAX_CHAT_HISTORY == 50

LastN(seq, n) ==
    IF Len(seq) <= n THEN seq ELSE SubSeq(seq, Len(seq) - n + 1, Len(seq))

\* The rows a caller acting for user_id can read, oldest first.
VisibleChats(rows, user_id) ==
    LET Mine(row) == ChatsSelectPolicy(user_id, row)
    IN  SelectSeq(rows, Mine)

\* ChatHistoryService.get_recent_chats: the last `limit` chats of the user.
get_recent_chats(rows, user_id, limit) == LastN(VisibleChats(rows, user_id), limit)

\* ChatHistoryService.get_all_chats, GET /api/history/{user_id}?limit=50
get_all_chats(rows, user_id, limit) == LastN(VisibleChats(rows, user_id), limit)

\* ChatHistoryService.delete_user_history, DELETE /api/history/{user_id}
delete_user_history(rows, user_id) ==
    LET Kept(row) == ~ChatsDeletePolicy(user_id, row)
    IN  SelectSeq(rows, Kept)

\* A row of public.chats; `by` records the user whose ask appended the row.
ChatRow(user_id, question, answer, refs, created_at) ==
    [ user_id |-> user_id, question |-> question, answer |-> answer,
      sources |-> refs, created_at |-> created_at, by |-> user_id ]

\* ChatHistoryService.save_chat
save_chat(rows, user_id, question, answer, refs, now) ==
    LET row == ChatRow(user_id, question, answer, refs, now)
    IN  IF ChatsInsertPolicy(user_id, row) THEN Append(rows, row) ELSE rows

(***************************************************************************)
(* Answer pipeline, POST /api/ask { query, user_id, top_k, ... }.          *)
(***************************************************************************)
Queries == {"q1", "q2"}
\* Embedding of a question.
QueryEmbedding(q) == IF q = "q1" THEN 0 ELSE 2

AskStages == << "LoadingHistory", "Embedding", "Retrieving", "Generating", "Persisting",
                "Done" >>
AskInFlight == {"LoadingHistory", "Embedding", "Retrieving", "Generating", "Persisting"}
AskResting == {"Idle", "Done", "Failed"}

AskStageAfter(s) ==
    LET i == CHOOSE k \in 1 .. (Len(AskStages) - 1) : AskStages[k] = s
    IN  AskStages[i + 1]

(***************************************************************************)
(* Responses of POST /api/ask.                                             *)
(***************************************************************************)
NoResponse == [ ok |-> FALSE, answer |-> "none", references |-> << >>, detail |-> << >> ]

\* { "answer": ..., "references": [...] }
OkResponse(answer, refs) ==
    [ ok |-> TRUE, answer |-> answer, references |-> refs, detail |-> << >> ]

\* { "detail": "Failed to process question: <error details>" }
ErrorResponse(error) ==
    [ ok |-> FALSE, answer |-> "none", references |-> << >>,
      detail |-> << "Failed to process question: ", error >> ]

\* The text of the error a failing service raises.
ErrorText(why) ==
    CASE why = "GenerationUnavailable" -> "401 Unauthorized from Groq API"
      [] why = "RetrievalUnavailable"  -> "vector service unavailable"
      [] OTHER                         -> "chat store unavailable"

NoCalls == [ embed |-> 0, query |-> 0, history |-> 0, generate |-> 0, save |-> 0 ]

\* What a request remembers of the request before it: whose it was, its
\* question and answer, whether the answer was returned and under which
\* created_at its chat was saved (0 when it was not saved).
NoPrev ==
    [ user_id |-> "A", question |-> "none", answer |-> "none", returned |-> FALSE,
      saved_at |-> 0 ]

IdleAsk ==
    [ stage |-> "Idle", user_id |-> "A", query |-> "q1", top_k |-> RAG_TOP_K_RETRIEVAL,
      attempts |-> 0, history |-> << >>, qvec |-> 0, refs |-> << >>,
      answer |-> "none", outcome |-> "none", calls |-> NoCalls,
      memory |-> "none", prompt |-> << >>, log |-> {}, stored |-> FALSE,
      response |-> NoResponse, prev |-> NoPrev ]

\* A reference of the response: file_name, chunk_index, relevance_score, excerpt.
Reference(q, v) ==
    [ file_name |-> v.metadata.file_name, chunk_index |-> v.metadata.chunk_index,
      relevance_score |-> Score(q, v.values), excerpt |-> v.metadata.chunk_text,
      owner |-> UpsertedUnder(v) ]

(***************************************************************************)
(* The prompt: a sequence of parts, inspected by kind.                     *)
(***************************************************************************)
Part(kind, question, answer, citation, text) ==
    [ kind |-> kind, question |-> question, answer |-> answer, citation |-> citation,
      text |-> text ]

SystemPart == Part("system", "none", "none", 0, "instructions")
\* "User asked: <question>  Assistant answered: <answer>"
\* A history line that drops the assistant's answer.
HistoryPartQuestionOnly(row) == Part("history", row.question, "none", 0, "none")

HistoryPart(row) == Part("history", row.question, row.answer, 0, "none")
\* A retrieved passage tagged with its citation index.
PassagePart(i, ref) == Part("passage", "none", "none", i, ref.excerpt)
\* The signal that retrieval found nothing.
NoContextPart == Part("no_context", "none", "none", 0, "none")
QueryPart(q) == Part("query", q, "none", 0, "none")

\* "Previous conversation:" followed by the chats, oldest first.
format_chat_context(history) ==
    [ i \in 1 .. Len(history) |-> HistoryPart(history[i]) ]

\* A context that says nothing when no passage was retrieved.
FormatPassagesSilent(refs) ==
    [ i \in 1 .. Len(refs) |-> PassagePart(i, refs[i]) ]

FormatPassages(refs) ==
    IF refs = << >>
    THEN << NoContextPart >>
    ELSE [ i \in 1 .. Len(refs) |-> PassagePart(i, refs[i]) ]

\* A prompt with the documents ahead of the previous chats.
AssemblePromptDocumentsFirst(history, refs, query) ==
    << SystemPart >> \o FormatPassages(refs) \o format_chat_context(history)
        \o << QueryPart(query) >>

\* c. Format context: [previous chats] + [documents], then the question.
AssemblePrompt(history, refs, query) ==
    << SystemPart >> \o format_chat_context(history) \o FormatPassages(refs)
        \o << QueryPart(query) >>

AskReceive(u, q) ==
    /\ ask.stage \in AskResting
    /\ asks < MaxAsks
    /\ asks' = asks + 1
    /\ ask' = [ IdleAsk EXCEPT !.stage = "LoadingHistory", !.user_id = u, !.query = q,
                               !.prev = [ user_id  |-> ask.user_id,
                                          question |-> ask.query,
                                          answer   |-> ask.answer,
                                          returned |-> ask.response.ok,
                                          saved_at |-> IF ask.stored
                                                       THEN SeedTurns + asks
                                                       ELSE 0 ] ]
    /\ UNCHANGED << chats, ingVars, chk, uiVars >>

\* a. Load the user's last CHAT_CONTEXT_WINDOW chats.
AskLoadHistory ==
    /\ ask.stage = "LoadingHistory"
    /\ ask' = [ ask EXCEPT !.stage = AskStageAfter(@),
                           !.calls.history = @ + 1,
                           !.memory = "loaded",
                           !.history = get_recent_chats(chats, ask.user_id,
                                                        CHAT_CONTEXT_WINDOW) ]
    /\ UNCHANGED << chats, asks, ingVars, chk, uiVars >>

\* A pipeline that gives up when the chat store is unavailable.
AfterHistoryFailureFatal(a) ==
    [ a EXCEPT !.stage = "Failed", !.calls.history = @ + 1, !.memory = "unavailable",
               !.outcome = "HistoryUnavailable",
               !.response = ErrorResponse("chat store unavailable") ]

\* After a failed read of the chats the failure is logged and the pipeline goes
\* on without history.
AfterHistoryFailure(a) ==
    [ a EXCEPT !.stage = AskStageAfter(@), !.calls.history = @ + 1,
               !.memory = "unavailable", !.history = << >>,
               !.log = @ \cup {"history_unavailable"} ]

\* The chat store is unavailable: the answer is produced without history.
AskLoadHistoryError ==
    /\ ask.stage = "LoadingHistory"
    /\ ask' = AfterHistoryFailure(ask)
    /\ UNCHANGED << chats, asks, ingVars, chk, uiVars >>

\* b. Embed the question.
AskEmbedQuery ==
    /\ ask.stage = "Embedding"
    /\ ask' = [ ask EXCEPT !.stage = AskStageAfter(@), !.calls.embed = @ + 1,
                           !.attempts = 0, !.qvec = QueryEmbedding(ask.query) ]
    /\ UNCHANGED << chats, asks, ingVars, chk, uiVars >>

AskFailed(a, why) ==
    [ a EXCEPT !.stage = "Failed", !.outcome = why,
               !.response = ErrorResponse(ErrorText(why)) ]

\* A transient failure of the embedding call: retry, or give up.
AskEmbedTransientError ==
    /\ ask.stage = "Embedding"
    /\ ask' = IF MayRetry(ask.attempts + 1)
              THEN [ ask EXCEPT !.attempts = @ + 1, !.calls.embed = @ + 1 ]
              ELSE AskFailed([ ask EXCEPT !.attempts = @ + 1, !.calls.embed = @ + 1 ],
                             "RetrievalUnavailable")
    /\ UNCHANGED << chats, asks, ingVars, chk, uiVars >>

\* b. Retrieve the top_k chunks of the user.
AskRetrieve ==
    /\ ask.stage = "Retrieving"
    /\ LET res == query_vectors(index, ask.user_id, ask.qvec, ask.top_k)
           refs == [ i \in 1 .. Len(res) |-> Reference(ask.qvec, res[i]) ]
       IN  ask' = [ ask EXCEPT !.stage = AskStageAfter(@), !.calls.query = @ + 1,
                               !.refs = refs,
                               !.prompt = AssemblePrompt(ask.history, refs, ask.query) ]
    /\ UNCHANGED << chats, asks, ingVars, chk, uiVars >>

AskRetrieveError ==
    /\ ask.stage = "Retrieving"
    /\ ask' = AskFailed([ ask EXCEPT !.calls.query = @ + 1 ], "RetrievalUnavailable")
    /\ UNCHANGED << chats, asks, ingVars, chk, uiVars >>

\* The answer the model returns for a question, and the user-safe fallback.
AnswerOf(q) == IF q = "q1" THEN "a1" ELSE "a2"
FALLBACK_ANSWER == "fallback"
\* The answer to a prompt that carries no passage.
NO_CONTEXT_ANSWER == "No relevant information found"

\* What the model answers to a prompt.
Generated(prompt, q) ==
    IF \E i \in 1 .. Len(prompt) : prompt[i].kind = "no_context"
    THEN NO_CONTEXT_ANSWER
    ELSE AnswerOf(q)

\* A pipeline that repeats a failed generation call.
AfterGenerationFailureRetrying(a) ==
    [ a EXCEPT !.calls.generate = @ + 1 ]

\* After a failed generation call the request ends with the error response
\* { "detail": "Failed to process question: <error details>" }.
AfterGenerationFailure(a) ==
    AskFailed([ a EXCEPT !.calls.generate = @ + 1 ], "GenerationUnavailable")

\* d, e. Send the prompt to the Groq API and take the answer.
AskGenerate ==
    /\ ask.stage = "Generating"
    /\ ask' = [ ask EXCEPT !.stage = AskStageAfter(@), !.calls.generate = @ + 1,
                           !.answer = Generated(ask.prompt, ask.query),
                           !.outcome = "answered" ]
    /\ UNCHANGED << chats, asks, ingVars, chk, uiVars >>

AskGenerateError ==
    /\ ask.stage = "Generating"
    /\ ask' = AfterGenerationFailure(ask)
    /\ UNCHANGED << chats, asks, ingVars, chk, uiVars >>

\* f. Save the new Q&A to the chats table.
AskPersist ==
    /\ ask.stage = "Persisting"
    /\ chats' = save_chat(chats, ask.user_id, ask.query, ask.answer, ask.refs,
                          SeedTurns + asks)
    /\ ask' = [ ask EXCEPT !.stage = AskStageAfter(@), !.calls.save = @ + 1,
                           !.stored = TRUE,
                           !.response = OkResponse(ask.answer, ask.refs) ]
    /\ UNCHANGED << asks, ingVars, chk, uiVars >>

\* A pipeline that answers with an error when the chat cannot be saved.
AfterSaveFailureFatal(a) ==
    AskFailed([ a EXCEPT !.calls.save = @ + 1 ], "SaveFailed")

\* After a failed save the failure is logged and the answer is returned.
AfterSaveFailure(a) ==
    [ a EXCEPT !.stage = AskStageAfter(@), !.calls.save = @ + 1,
               !.log = @ \cup {"save_failed"},
               !.response = OkResponse(a.answer, a.refs) ]

\* Saving fails: the failure is logged and the answer is returned all the same.
AskPersistError ==
    /\ ask.stage = "Persisting"
    /\ ask' = AfterSaveFailure(ask)
    /\ UNCHANGED << chats, asks, ingVars, chk, uiVars >>

\* DELETE /api/history/{user_id}
ClearHistory(u) ==
    /\ VisibleChats(chats, u) # << >>
    /\ chats' = delete_user_history(chats, u)
    /\ UNCHANGED << ask, asks, ingVars, chk, uiVars >>

InitAsk ==
    /\ chats = << >>
    /\ ask = IdleAsk
    /\ asks = 0

AskProgress ==
    \/ AskLoadHistory
    \/ AskEmbedQuery
    \/ AskRetrieve
    \/ AskGenerate
    \/ AskPersist

AskFault ==
    \/ AskLoadHistoryError
    \/ AskEmbedTransientError
    \/ AskRetrieveError
    \/ AskGenerateError
    \/ AskPersistError

(***************************************************************************)
(* Concurrent ingestion: two request handlers and the clock, with every    *)
(* external call succeeding.                                               *)
(***************************************************************************)
PipelineStep(r) ==
    \/ ExtractText(r)
    \/ SplitText(r)
    \/ EmbedChunk(r)
    \/ PurgeOld(r)
    \/ UpsertVectors(r)
    \/ CompleteIngest(r)

IngestFault(r) ==
    \/ EmbedTransientError(r)
    \/ EmbedPermanentError(r)
    \/ UpsertTransientError(r)
    \/ IngestTimeout(r)

NextRace ==
    \/ \E r \in Reqs, u \in Users, url \in Urls : ReceiveIngest(r, u, url)
    \/ \E r \in Reqs : PipelineStep(r)
    \/ Tick

\* No text has been given to the splitter.
IdleChunker ==
    [ text |-> << >>, size |-> 1, overlap |-> 0, chunks |-> << >>, done |-> FALSE ]

InitChunker == chk = IdleChunker

(***************************************************************************)
(* The chat page, pages/chat.tsx.  A message is its role, what it is and   *)
(* the number of the question it belongs to (0 for none); questions are    *)
(* numbered in the order handleSendMessage accepted them.                  *)
(***************************************************************************)
Message(role, kind, q) == [ role |-> role, kind |-> kind, q |-> q ]

\* id '0': "Hello! I'm your personalized learning assistant. ..."
WelcomeMessage == Message("assistant", "welcome", 0)
\* id '0': "Chat history cleared. How can I help you today?"
ClearedMessage == Message("assistant", "cleared", 0)
\* "Sorry, I encountered an error. Please make sure the backend server is running ..."
ErrorMessage(q) == Message("assistant", "error", q)
\* content: data.answer
AnswerMessage(q) == Message("assistant", "answer", q)
UserMessage(q) == Message("user", "question", q)

\* The messages built from the chats of a history response: the welcome
\* message, then question and answer of every chat.
HistoryMessages(n) ==
    << WelcomeMessage >>
    \o [ i \in 1 .. (2 * n) |->
           IF i % 2 = 1 THEN Message("user", "history", 0)
                        ELSE Message("assistant", "history", 0) ]

\* useState: messages [], input '', isLoading false, isLoadingHistory true,
\* user null.  hreq is the history request, areq the questions whose POST
\* /api/ask is in flight, creq the DELETE requests in flight, each with the
\* number of questions accepted when Clear was clicked.  submits, clears,
\* sent, posts count events; replies[q] counts the assistant messages added
\* for question q; stale holds the questions accepted before a clear that
\* succeeded.
IdlePage ==
    [ messages |-> << >>, typed |-> FALSE, isLoading |-> FALSE,
      isLoadingHistory |-> TRUE, user |-> FALSE,
      hreq |-> "none", areq |-> {}, creq |-> {},
      submits |-> 0, clears |-> 0, sent |-> 0, posts |-> 0,
      replies |-> [ q \in 1 .. MaxSubmits |-> 0 ], stale |-> {} ]

\* The form and the header buttons are rendered.
FormShown(p) == p.user /\ ~p.isLoadingHistory

\* checkUser: the user is signed in; loadChatHistory starts:
\* setIsLoadingHistory(true), fetch GET /api/history/{userId}?limit=20.
checkUser ==
    /\ ~page.user
    /\ page' = [ page EXCEPT !.user = TRUE, !.isLoadingHistory = TRUE,
                             !.hreq = "pending" ]
    /\ UNCHANGED << ingVars, askVars, chk, cards, upl >>

\* A fallback that shows nothing.
ShowNothing(p) == p

\* setMessages([welcome message]): the else branch and the catch block.
ShowWelcome(p) == [ p EXCEPT !.messages = << WelcomeMessage >> ]

\* finally { setIsLoadingHistory(false) }
FinishLoading(p, outcome) == [ p EXCEPT !.isLoadingHistory = FALSE, !.hreq = outcome ]

\* response.ok: the history of n chats is shown.
HistoryOk(n) ==
    /\ page.hreq = "pending"
    /\ page' = FinishLoading([ page EXCEPT !.messages = HistoryMessages(n) ], "loaded")
    /\ UNCHANGED << ingVars, askVars, chk, cards, upl >>

\* A non-2xx status: the else branch.
HistoryNotOk ==
    /\ page.hreq = "pending"
    /\ page' = FinishLoading(ShowWelcome(page), "not_ok")
    /\ UNCHANGED << ingVars, askVars, chk, cards, upl >>

\* fetch or response.json() throws, or the body has no chats: the catch block.
HistoryThrows ==
    /\ page.hreq = "pending"
    /\ page' = FinishLoading(ShowWelcome(page), "threw")
    /\ UNCHANGED << ingVars, askVars, chk, cards, upl >>

\* onChange of the input: text is typed.
TypeInput ==
    /\ FormShown(page)
    /\ ~page.typed
    /\ page' = [ page EXCEPT !.typed = TRUE ]
    /\ UNCHANGED << ingVars, askVars, chk, cards, upl >>

\* A guard that does not look at isLoading.
MaySendWhileLoading(p) == p.typed

\* if (!input.trim() || isLoading) return;
MaySend(p) == p.typed /\ ~p.isLoading

\* handleSendMessage up to its await: a submit of the form.
handleSendMessage ==
    /\ FormShown(page)
    /\ page.submits < MaxSubmits
    /\ page' = IF MaySend(page)
               THEN [ page EXCEPT !.submits = @ + 1,
                                  !.messages = Append(@, UserMessage(page.sent + 1)),
                                  !.typed = FALSE,
                                  !.isLoading = TRUE,
                                  !.sent = @ + 1,
                                  !.posts = @ + 1,
                                  !.areq = @ \cup {page.sent + 1} ]
               ELSE [ page EXCEPT !.submits = @ + 1 ]
    /\ UNCHANGED << ingVars, askVars, chk, cards, upl >>

\* setMessages(prev => [...prev, message]) and finally { setIsLoading(false) }
\* once the request of question q has settled.
Reply(p, q, message) ==
    [ p EXCEPT !.messages = Append(@, message),
               !.isLoading = FALSE,
               !.areq = @ \ {q},
               !.replies[q] = @ + 1 ]

\* An error branch that adds no message.
SettleSilently(p, q) ==
    [ p EXCEPT !.isLoading = FALSE, !.areq = @ \ {q} ]

\* catch: the fixed error text is shown.
SettleWithError(p, q) == Reply(p, q, ErrorMessage(q))

\* The POST of question q returns 2xx: the answer is shown.
AskOk(q) ==
    /\ q \in page.areq
    /\ page' = Reply(page, q, AnswerMessage(q))
    /\ UNCHANGED << ingVars, askVars, chk, cards, upl >>

\* It returns a non-2xx status: throw new Error(`HTTP error! ...`).
AskNotOk(q) ==
    /\ q \in page.areq
    /\ page' = SettleWithError(page, q)
    /\ UNCHANGED << ingVars, askVars, chk, cards, upl >>

\* fetch or response.json() throws.
AskThrows(q) ==
    /\ q \in page.areq
    /\ page' = SettleWithError(page, q)
    /\ UNCHANGED << ingVars, askVars, chk, cards, upl >>

\* handleClearHistory up to its await: Clear is clicked and confirmed,
\* fetch DELETE /api/history/{user.id}.
handleClearHistory ==
    /\ FormShown(page)
    /\ page.clears < MaxClears
    /\ page' = [ page EXCEPT !.clears = @ + 1,
                             !.creq = @ \cup {[ id |-> page.clears + 1,
                                                n  |-> page.sent ]} ]
    /\ UNCHANGED << ingVars, askVars, chk, cards, upl >>

\* response.ok: setMessages([cleared message]).
ClearOk(c) ==
    /\ c \in page.creq
    /\ page' = [ page EXCEPT !.creq = @ \ {c},
                             !.messages = << ClearedMessage >>,
                             !.stale = @ \cup (1 .. c.n) ]
    /\ UNCHANGED << ingVars, askVars, chk, cards, upl >>

\* A non-2xx status or a thrown error: only a toast.
ClearFails(c) ==
    /\ c \in page.creq
    /\ page' = [ page EXCEPT !.creq = @ \ {c} ]
    /\ UNCHANGED << ingVars, askVars, chk, cards, upl >>

(***************************************************************************)
(* The flashcards page, pages/flashcards.tsx.  The lists are known by      *)
(* their lengths; the due card at index k is card k.  A review request in  *)
(* flight carries what handleReview captured when the button was pressed:  *)
(* currentCardIndex and the card.  posts[k] counts the review POSTs for    *)
(* due card k since review mode was entered.                               *)
(***************************************************************************)
IdleCards ==
    [ isLoading |-> TRUE, due |-> 0, all |-> 0, currentCardIndex |-> 0,
      isFlipped |-> FALSE, mode |-> "review", reqs |-> {}, presses |-> 0,
      posts |-> [ k \in 0 .. MaxCards |-> 0 ] ]

\* const currentFlashcards = mode === 'review' ? dueFlashcards : flashcards;
currentFlashcards(c) == IF c.mode = "review" THEN c.due ELSE c.all

\* const currentCard = currentFlashcards[currentCardIndex];
HasCurrentCard(c) == c.currentCardIndex >= 0 /\ c.currentCardIndex < currentFlashcards(c)

\* loadFlashcards: the two lists as the two requests returned them (a list
\* stays empty when its request failed).
loadFlashcards(d, n) ==
    /\ cards.isLoading
    /\ cards' = [ cards EXCEPT !.isLoading = FALSE, !.due = d, !.all = n ]
    /\ UNCHANGED << ingVars, askVars, chk, page, upl >>

\* handleFlip: a click on the card.
handleFlip ==
    /\ ~cards.isLoading
    /\ HasCurrentCard(cards)
    /\ cards' = [ cards EXCEPT !.isFlipped = ~@ ]
    /\ UNCHANGED << ingVars, askVars, chk, page, upl >>

\* Mode Selector: Review.
SelectReview ==
    /\ ~cards.isLoading
    /\ cards' = [ cards EXCEPT !.mode = "review", !.currentCardIndex = 0,
                               !.isFlipped = FALSE,
                               !.posts = [ k \in 0 .. MaxCards |-> 0 ] ]
    /\ UNCHANGED << ingVars, askVars, chk, page, upl >>

\* Mode Selector: Browse All.
SelectBrowse ==
    /\ ~cards.isLoading
    /\ cards' = [ cards EXCEPT !.mode = "browse", !.currentCardIndex = 0,
                               !.isFlipped = FALSE ]
    /\ UNCHANGED << ingVars, askVars, chk, page, upl >>

nextCard ==
    /\ ~cards.isLoading
    /\ HasCurrentCard(cards)
    /\ cards.currentCardIndex < currentFlashcards(cards) - 1
    /\ cards' = [ cards EXCEPT !.currentCardIndex = @ + 1, !.isFlipped = FALSE ]
    /\ UNCHANGED << ingVars, askVars, chk, page, upl >>

previousCard ==
    /\ ~cards.isLoading
    /\ HasCurrentCard(cards)
    /\ cards.currentCardIndex > 0
    /\ cards' = [ cards EXCEPT !.currentCardIndex = @ - 1, !.isFlipped = FALSE ]
    /\ UNCHANGED << ingVars, askVars, chk, page, upl >>

\* handleReview up to its await: a rating button is pressed (the buttons are
\* shown in review mode on a flipped card) and the review POST is sent.
handleReview ==
    /\ ~cards.isLoading
    /\ cards.mode = "review" /\ cards.isFlipped
    /\ HasCurrentCard(cards)
    /\ cards.presses < MaxReviews
    /\ cards' = [ cards EXCEPT !.presses = @ + 1,
                               !.posts[cards.currentCardIndex] = @ + 1,
                               !.reqs = @ \cup {[ id  |-> cards.presses + 1,
                                                  idx |-> cards.currentCardIndex ]} ]
    /\ UNCHANGED << ingVars, askVars, chk, page, upl >>

\* response.ok: move to the card after the one captured, or finish the pass.
ReviewOk(r) ==
    /\ r \in cards.reqs
    /\ cards' = IF r.idx < cards.due - 1
                THEN [ cards EXCEPT !.reqs = @ \ {r},
                                    !.currentCardIndex = r.idx + 1,
                                    !.isFlipped = FALSE ]
                ELSE [ cards EXCEPT !.reqs = @ \ {r},
                                    !.mode = "browse",
                                    !.currentCardIndex = 0 ]
    /\ UNCHANGED << ingVars, askVars, chk, page, upl >>

\* A non-2xx status or a thrown error: the page stays as it is.
ReviewFails(r) ==
    /\ r \in cards.reqs
    /\ cards' = [ cards EXCEPT !.reqs = @ \ {r} ]
    /\ UNCHANGED << ingVars, askVars, chk, page, upl >>

(***************************************************************************)
(* The upload component (components/FileUpload.tsx).  handleUpload runs in *)
(* segments between its awaits: getUser, the storage upload, the insert    *)
(* into uploads, the POST /api/ingest.  call holds the running invocation  *)
(* with the file and the path it captured; bucket, rows and posts are the  *)
(* user-docs bucket, the uploads table and the ingest requests sent.       *)
(* failed, posted and notified record what the invocation did; done keeps  *)
(* the record of every finished invocation.                                *)
(***************************************************************************)
Files == { "notes.pdf", "book.txt" }

NoFile == "none"

IdleCall == [ pc |-> "idle", file |-> NoFile, path |-> 0,
              failed |-> "no", posted |-> FALSE, notified |-> FALSE ]

IdleUpload ==
    [ file |-> NoFile, uploading |-> FALSE, call |-> IdleCall,
      now |-> 1, uploads |-> 0,
      bucket |-> {}, rows |-> {}, posts |-> << >>, notified |-> 0,
      done |-> << >> ]

\* The file input and the remove button stay enabled while an upload runs.
handleFileChange(f) ==
    /\ f \in Files
    /\ upl.file # f
    /\ upl' = [ upl EXCEPT !.file = f ]
    /\ UNCHANGED << ingVars, askVars, chk, page, cards >>

RemoveFile ==
    /\ upl.file # NoFile
    /\ upl' = [ upl EXCEPT !.file = NoFile ]
    /\ UNCHANGED << ingVars, askVars, chk, page, cards >>

\* The button is disabled without a file and while uploading.
handleUpload ==
    /\ upl.file # NoFile
    /\ ~ upl.uploading
    /\ upl.uploads < MaxUploads
    /\ upl' = [ upl EXCEPT !.uploading = TRUE,
                           !.uploads = @ + 1,
                           !.call = [ IdleCall EXCEPT !.pc = "getUser",
                                                      !.file = upl.file ] ]
    /\ UNCHANGED << ingVars, askVars, chk, page, cards >>

\* finally: setUploading(false); the invocation is over.
Finished(u) ==
    [ u EXCEPT !.uploading = FALSE,
               !.call = IdleCall,
               !.done = Append(@, [ file |-> u.call.file, path |-> u.call.path,
                                    failed |-> u.call.failed,
                                    posted |-> u.call.posted,
                                    notified |-> u.call.notified ]) ]

\* The outer catch: a toast, then finally.
UploadFailed(u) == Finished(u)

\* The segment after the insert: the toasts and the fetch of /api/ingest.
SendIngest(u) ==
    [ u EXCEPT !.call.pc = "ingest",
               !.call.posted = TRUE,
               !.posts = Append(@, [ file |-> u.call.file, path |-> u.call.path ]) ]

\* if (uploadError) throw uploadError
AfterUploadError(u) == UploadFailed(u)

AfterDbErrorIgnored(u) == SendIngest(u)

\* if (dbError) throw dbError
AfterDbError(u) == UploadFailed(u)

\* getUser answers with the user: fileName is built from Date.now(), and
\* the storage upload starts.
GetUserOk(t) ==
    /\ upl.call.pc = "getUser"
    /\ t \in { upl.now, upl.now + 1 }
    /\ t <= MaxStamp
    /\ upl' = [ upl EXCEPT !.now = t, !.call.pc = "storage", !.call.path = t ]
    /\ UNCHANGED << ingVars, askVars, chk, page, cards >>

\* if (!user) throw, or getUser itself throws.
GetUserNone ==
    /\ upl.call.pc = "getUser"
    /\ upl' = UploadFailed([ upl EXCEPT !.call.failed = "auth" ])
    /\ UNCHANGED << ingVars, askVars, chk, page, cards >>

\* The bucket takes the object (no object has that path yet), and the
\* insert into uploads starts.
StorageOk ==
    /\ upl.call.pc = "storage"
    /\ \A o \in upl.bucket : o.path # upl.call.path
    /\ upl' = [ upl EXCEPT !.call.pc = "insert",
                           !.bucket = @ \cup { [ path |-> upl.call.path,
                                                 file |-> upl.call.file ] } ]
    /\ UNCHANGED << ingVars, askVars, chk, page, cards >>

StorageError ==
    /\ upl.call.pc = "storage"
    /\ upl' = AfterUploadError([ upl EXCEPT !.call.failed = "storage" ])
    /\ UNCHANGED << ingVars, askVars, chk, page, cards >>

InsertOk ==
    /\ upl.call.pc = "insert"
    /\ upl' = SendIngest([ upl EXCEPT !.rows = @ \cup { [ filename |-> upl.call.file,
                                                          file_url |-> upl.call.path ] } ])
    /\ UNCHANGED << ingVars, askVars, chk, page, cards >>

InsertError ==
    /\ upl.call.pc = "insert"
    /\ upl' = AfterDbError([ upl EXCEPT !.call.failed = "insert" ])
    /\ UNCHANGED << ingVars, askVars, chk, page, cards >>

\* After the inner try/catch, whatever the ingest answered: setFile(null),
\* onUploadSuccess(), then finally.
AfterIngest(u) ==
    Finished([ u EXCEPT !.file = NoFile,
                        !.notified = @ + 1,
                        !.call.notified = TRUE ])

IngestOk ==
    /\ upl.call.pc = "ingest"
    /\ upl' = AfterIngest(upl)
    /\ UNCHANGED << ingVars, askVars, chk, page, cards >>

\* A non-2xx answer or a thrown fetch: the inner catch shows a toast.
IngestFails ==
    /\ upl.call.pc = "ingest"
    /\ upl' = AfterIngest([ upl EXCEPT !.call.failed = "ingest" ])
    /\ UNCHANGED << ingVars, askVars, chk, page, cards >>


InitUI ==
    /\ page = IdlePage
    /\ cards = IdleCards
    /\ upl = IdleUpload

Init == InitIngest /\ InitAsk /\ InitChunker /\ InitUI

SpecRace == Init /\ [][NextRace]_vars

(***************************************************************************)
(* One ingestion at a time, with failing external calls and the timeout.   *)
(***************************************************************************)
NextIngest ==
    \/ \E u \in Users, url \in AllUrls : ReceiveIngest("r1", u, url)
    \/ PipelineStep("r1")
    \/ IngestFault("r1")
    \/ RejectOversize("r1")
    \/ \E u \in Users, f \in AllFileNames : DeleteVectors(u, f)
    \/ Tick

SpecIngest == Init /\ [][NextIngest]_vars

(***************************************************************************)
(* Asking: the answer pipeline and the history endpoints over an index     *)
(* that earlier ingestions have filled.                                    *)
(***************************************************************************)
\* The index after the documents in D were each ingested once at time 0.
IndexOf(D) ==
    UNION { BuildVectors(d[1], d[2], Len(split_text(DocLen(d[2]))), 0) : d \in D }

\* The chats table after SeedTurns earlier asks, the third by B and the others
\* by A, all answered and saved.
SeedChats ==
    [ i \in 1 .. SeedTurns |->
        LET q == IF i % 3 = 1 THEN "q1" ELSE "q2"
        IN  ChatRow(IF i = 3 THEN "B" ELSE "A", q, AnswerOf(q), << >>, i) ]

InitAskIndex ==
    /\ chats \in { << >>, SeedChats }
    /\ ask = IdleAsk
    /\ asks = 0
    /\ clock = 0
    /\ index \in { IndexOf(D) : D \in SUBSET (Users \X Urls) }
    /\ ing = [r \in Reqs |-> IdleRequest]
    /\ ingests = 0
    /\ pre = [r \in Reqs |-> {}]
    /\ written = [r \in Reqs |-> {}]
    /\ touched = [r \in Reqs |-> {}]
    /\ overlapped = FALSE
    /\ lastWriter = "none"
    /\ purgePolicy = FALSE
    /\ chk = IdleChunker
    /\ InitUI

NextAsk ==
    \/ \E u \in Users, q \in Queries : AskReceive(u, q)
    \/ AskProgress
    \/ AskFault
    \/ \E u \in Users : ClearHistory(u)

SpecAsk == InitAskIndex /\ [][NextAsk]_vars

(***************************************************************************)
(* Retrying: one ingestion and one ask, side by side from their arrival to *)
(* their end, every external call free to fail.  A handler that can take a *)
(* step eventually takes one: each awaited call returns, raises or times   *)
(* out.                                                                    *)
(***************************************************************************)
IngestRun == PipelineStep("r1") \/ IngestFault("r1")
AskRun == AskProgress \/ AskFault

\* The one ingest request and the one ask request.
ReceiveIngestAlone ==
    /\ ingests = 0
    /\ ReceiveIngest("r1", "A", "url1")

AskReceiveAlone ==
    /\ asks = 0
    /\ AskReceive("A", "q1")

NextRetry ==
    \/ ReceiveIngestAlone
    \/ IngestRun
    \/ AskReceiveAlone
    \/ AskRun

SpecRetry ==
    /\ Init /\ [][NextRetry]_vars
    /\ WF_vars(IngestRun) /\ WF_vars(AskRun)

(***************************************************************************)
(* Properties of the vector index.                                         *)
(***************************************************************************)
Ids(vs) == { v.id : v \in vs }

\* The chunk a vector stands for.
Triple(v) == << v.metadata.user_id, v.metadata.file_name, v.metadata.chunk_index >>

\* C1: for every owner, query vector and topK, every reference returned by a
\* query was upserted under that owner, whatever else the index holds.
C1_OwnerIsolation ==
    \A a \in Users, q \in QueryVecs, k \in TopKs :
        LET res == query_vectors(index, a, q, k)
        IN  \A i \in 1 .. Len(res) : res[i] \in index /\ UpsertedUnder(res[i]) = a

\* The index holds vectors of both owners and a query of A returns references.
C1_Witness ==
    /\ \E v \in index : UpsertedUnder(v) = "B"
    /\ Len(query_vectors(index, "A", 1, RAG_TOP_K_RETRIEVAL)) > 0

\* Two runs of the same document that overlapped, both complete, with no call
\* of the delete endpoint on the document meanwhile.
RacedSameDoc ==
    /\ \A r \in Reqs : ing[r].stage = "Complete" /\ "endpoint" \notin touched[r]
    /\ overlapped
    /\ ing["r1"].user_id = ing["r2"].user_id
    /\ ing["r1"].file_url = ing["r2"].file_url

\* C5: when two ingestions of the same document run concurrently under the
\* delete-before-upsert policy and both complete, the document's stored vectors
\* are exactly the set written by the request that upserted last.
C5_LastWriterWins ==
    (RacedSameDoc /\ purgePolicy) =>
        DocVectors(index, ing["r1"].user_id, FileNameOf(ing["r1"].file_url))
            = written[lastWriter]

\* Two overlapping runs on different documents of one owner, both complete,
\* nothing else having changed either document.
RacedOtherDoc ==
    /\ \A r \in Reqs : ing[r].stage = "Complete" /\ touched[r] = {}
    /\ overlapped
    /\ ing["r1"].user_id = ing["r2"].user_id
    /\ ing["r1"].file_url # ing["r2"].file_url

\* What a run of r alone leaves stored for its document.
AloneResult(r) == upsert(IF ing[r].purge THEN {} ELSE pre[r], written[r])

\* C6: when two ingestions of different documents of one owner run
\* concurrently and both complete, each document's stored vectors are the ones
\* its own run leaves when it runs alone: neither run disturbs the other.
C6_DisjointDocuments ==
    RacedOtherDoc =>
        \A r \in Reqs :
            DocVectors(index, ing[r].user_id, FileNameOf(ing[r].file_url)) = AloneResult(r)

\* Both documents of A were re-ingested concurrently with the purge policy.
C6_Witness ==
    /\ RacedOtherDoc
    /\ purgePolicy
    /\ \A r \in Reqs : written[r] # {} /\ ing[r].purged

\* A completed run of r over a document that was fully stored before, nothing
\* else having changed the document.
Reingested(r) ==
    /\ ing[r].stage = "Complete"
    /\ touched[r] = {}
    /\ Cardinality(pre[r]) = ing[r].chunks

\* C7: re-ingesting a document with the same chunking parameters leaves the
\* index with the same set of vector ids for that document.
C7_ReingestKeepsIds ==
    \A r \in Reqs :
        Reingested(r) =>
            Ids(DocVectors(index, ing[r].user_id, FileNameOf(ing[r].file_url)))
                = Ids(pre[r])

\* C8: after a second upsert of an (owner, document, chunk index) the index
\* holds one vector for it, the one the second upsert wrote.
C8_OneVectorPerChunk ==
    \A r \in Reqs :
        (ing[r].stage \in {"Stored", "Complete"} /\ touched[r] = {} /\ pre[r] # {}) =>
            \A w \in written[r] : { v \in index : Triple(v) = Triple(w) } = {w}

(***************************************************************************)
(* Properties of the chat memory.                                          *)
(***************************************************************************)
\* C2: the history listing of an owner and the context window loaded for an
\* owner's ask hold only turns that were appended by asks of that owner, after
\* any sequence of asks and history clears by both owners.
C2_ChatsPartitioned ==
    /\ \A u \in Users :
          LET listed == get_all_chats(chats, u, MAX_CHAT_HISTORY)
          IN  \A i \in 1 .. Len(listed) : listed[i].by = u
    /\ \A i \in 1 .. Len(ask.history) : ask.history[i].by = ask.user_id

\* B's ask has loaded its context window, and B's history was listed, while the
\* table holds a turn appended by an ask of A.
C2_Witness ==
    /\ ask.user_id = "B"
    /\ ask.stage = "Embedding"
    /\ ask.calls.history = 1
    /\ \E i \in 1 .. Len(chats) : chats[i].by = "A"

(***************************************************************************)
(* Properties of the ingestion state machine.                              *)
(***************************************************************************)
\* The stage changes an ingestion may make.
StageMove(s, t) ==
    \/ s \in Resting /\ t = "Received"
    \/ s \in NonTerminal /\ t = "Failed"
    \/ \E i \in 1 .. (Len(Stages) - 1) : s = Stages[i] /\ t = Stages[i + 1]

\* C3: an ingestion moves through Received, TextExtracted, Chunked, Embedded,
\* Stored, Complete one stage at a time; the only other move is to Failed, which
\* is possible in every non-terminal stage; a request that follows a finished or
\* failed one starts at Received with no progress carried over.
C3_StageOrder ==
    /\ [][ \A r \in Reqs :
             /\ ing'[r].stage # ing[r].stage => StageMove(ing[r].stage, ing'[r].stage)
             /\ (ing'[r].stage = "Received" /\ ing[r].stage # "Received") =>
                    /\ ing'[r].chunks = 0
                    /\ ing'[r].embedded = 0
                    /\ ing'[r].attempts = 0
                    /\ ~ing'[r].purged ]_vars
    /\ [](\A r \in Reqs : ing[r].stage \in NonTerminal => ENABLED IngestTimeout(r))

\* A second request on the handler went through every stage up to Stored and
\* then failed.
C3_Witness ==
    /\ ingests = MaxIngests
    /\ ing["r1"].stage = "Failed"
    /\ written["r1"] # {}

EmbeddingFailures == {"EmbeddingUnavailable", "EmbeddingRejected"}

C9_GenerateOnce ==
    /\ ask.calls.generate <= 1
    /\ ask.calls.history <= 1
    /\ ask.calls.query <= 1
    /\ ask.calls.save <= 1
    /\ ask.calls.embed <= MAX_ATTEMPTS

\* An ask whose embedding call was retried and whose generation call failed.
C9_Witness ==
    /\ ask.outcome = "GenerationUnavailable"
    /\ ask.calls.generate = 1
    /\ ask.calls.embed > 1

TransientFailures == {"EmbeddingUnavailable", "IndexUnavailable"}

\* No retryable call is attempted more than MAX_ATTEMPTS times, and the request
\* has failed once the last attempt has.
RetryBound ==
    /\ \A r \in Reqs :
          /\ ing[r].attempts <= MAX_ATTEMPTS
          /\ ing[r].attempts = MAX_ATTEMPTS =>
                 ing[r].stage = "Failed" /\ ing[r].reason \in TransientFailures
    /\ ask.attempts <= MAX_ATTEMPTS
    /\ ask.attempts = MAX_ATTEMPTS =>
           ask.stage = "Failed" /\ ask.outcome = "RetrievalUnavailable"

\* C10: a transiently failing embedding call or vector upsert is attempted at
\* most MAX_ATTEMPTS times, after which the request has failed; every ingest and
\* every ask request that was accepted comes to an end.
C10_BoundedRetries ==
    /\ []RetryBound
    /\ (ing["r1"].stage \in NonTerminal) ~> (ing["r1"].stage \in {"Complete", "Failed"})
    /\ (ask.stage \in AskInFlight) ~> (ask.stage \in {"Done", "Failed"})

\* An upsert and the embedding of a question were both given up after the last
\* attempt.
C10_Witness ==
    /\ ing["r1"].stage = "Failed"
    /\ ing["r1"].reason = "IndexUnavailable"
    /\ ing["r1"].attempts = MAX_ATTEMPTS
    /\ ask.stage = "Failed"
    /\ ask.attempts = MAX_ATTEMPTS

(***************************************************************************)
(* Properties of the prompt.                                               *)
(***************************************************************************)
\* Position of a kind of part in the fixed order of the prompt.
PartRank(kind) ==
    CASE kind = "system"  -> 0
      [] kind = "history" -> 1
      [] kind = "query"   -> 3
      [] OTHER            -> 2

KindCount(prompt, kind) == Cardinality({ i \in 1 .. Len(prompt) : prompt[i].kind = kind })

PromptAssembled == ask.stage \in {"Generating", "Persisting", "Done"}

\* C11: every assembled prompt starts with the system instructions, ends with
\* the current query, and in between every history turn comes before every
\* retrieved passage.
C11_PromptOrder ==
    PromptAssembled =>
        /\ Len(ask.prompt) >= 3
        /\ ask.prompt[1].kind = "system" /\ KindCount(ask.prompt, "system") = 1
        /\ ask.prompt[Len(ask.prompt)] = QueryPart(ask.query)
        /\ KindCount(ask.prompt, "query") = 1
        /\ \A i, j \in 1 .. Len(ask.prompt) :
              i < j => PartRank(ask.prompt[i].kind) <= PartRank(ask.prompt[j].kind)

\* A prompt that holds a history turn and a retrieved passage.
C11_Witness ==
    /\ PromptAssembled
    /\ KindCount(ask.prompt, "history") >= 1
    /\ KindCount(ask.prompt, "passage") >= 1

\* The n most recent turns appended by asks of u, by creation time.
MostRecentTurns(rows, u, n) ==
    LET mine == { rows[i] : i \in { k \in 1 .. Len(rows) : rows[k].by = u } }
    IN  { r \in mine : Cardinality({ t \in mine : t.created_at > r.created_at }) < n }

HistoryParts(prompt) ==
    LET IsHistory(part) == part.kind = "history"
    IN  SelectSeq(prompt, IsHistory)

AskSettles == \E q \in 1 .. MaxSubmits : AskOk(q) \/ AskNotOk(q) \/ AskThrows(q)

HistorySettles == (\E n \in 0 .. MaxHistory : HistoryOk(n)) \/ HistoryNotOk \/ HistoryThrows

ClearSettles ==
    \E c \in [ id : 1 .. MaxClears, n : 0 .. MaxSubmits ] : ClearOk(c) \/ ClearFails(c)

NextChat ==
    \/ checkUser
    \/ HistorySettles
    \/ TypeInput
    \/ handleSendMessage
    \/ AskSettles
    \/ handleClearHistory
    \/ ClearSettles

\* The page as it is mounted; nothing else of the system moves.
InitChat == Init /\ purgePolicy = FALSE

SpecChat ==
    /\ InitChat
    /\ [][NextChat]_vars
    /\ WF_vars(AskSettles) /\ WF_vars(HistorySettles) /\ WF_vars(ClearSettles)

(***************************************************************************)
(* The flashcards page alone.                                              *)
(***************************************************************************)
ReviewSettles ==
    \E r \in [ id : 1 .. MaxReviews, idx : 0 .. MaxCards ] : ReviewOk(r) \/ ReviewFails(r)

NextCards ==
    \/ \E d \in 0 .. MaxCards, n \in 0 .. MaxCards : loadFlashcards(d, n)
    \/ handleFlip
    \/ SelectReview
    \/ SelectBrowse
    \/ nextCard
    \/ previousCard
    \/ handleReview
    \/ ReviewSettles

InitCards == Init /\ purgePolicy = FALSE

SpecCards == InitCards /\ [][NextCards]_vars

(***************************************************************************)
(* The upload component alone.                                             *)
(***************************************************************************)
NextUpload ==
    \/ \E f \in Files : handleFileChange(f)
    \/ RemoveFile
    \/ handleUpload
    \/ \E t \in 1 .. MaxStamp : GetUserOk(t)
    \/ GetUserNone
    \/ StorageOk
    \/ StorageError
    \/ InsertOk
    \/ InsertError
    \/ IngestOk
    \/ IngestFails

InitUpload == Init /\ purgePolicy = FALSE

SpecUpload == InitUpload /\ [][NextUpload]_vars

(***************************************************************************)
(* The text splitter alone: every text of the bounds, every chunk size and *)
(* every smaller overlap; the one step splits the text.                    *)
(***************************************************************************)
InitSplit ==
    /\ chk \in { [ IdleChunker EXCEPT !.text = t, !.size = c, !.overlap = o ] :
                    t \in Texts, c \in 1 .. MaxChunkSize, o \in 0 .. (MaxChunkSize - 1) }
    /\ chk.overlap < chk.size
    /\ InitIngest /\ purgePolicy = FALSE
    /\ InitAsk
    /\ InitUI

SplitDocument ==
    /\ ~chk.done
    /\ chk' = [ chk EXCEPT !.done = TRUE,
                           !.chunks = RecursiveCharacterTextSplitter(chk.text, chk.size,
                                                                     chk.overlap) ]
    /\ UNCHANGED << ingVars, askVars, uiVars >>

NextSplit == SplitDocument

SpecSplit == InitSplit /\ [][NextSplit]_vars

\* The unique span of a chunk that follows another: the chunk without the
\* `overlap` characters it shares with its predecessor.
UniqueSpan(chunk, overlap) == SubSeq(chunk, overlap + 1, Len(chunk))

\* The first chunk whole, then the unique span of every later chunk.
Reconstruct(chunks, overlap) ==
    IF chunks = << >> THEN << >>
    ELSE Head(chunks)
         \o Flatten([ i \in 1 .. (Len(chunks) - 1) |-> UniqueSpan(chunks[i + 1], overlap) ])

(***************************************************************************)
(* C20: for every text, chunk size and smaller overlap, the first chunk    *)
(* followed by the unique spans of the later chunks is the text again.     *)
(***************************************************************************)
C20_Reconstruction ==
    chk.done => Reconstruct(chk.chunks, chk.overlap) = chk.text

\* On texts without a separator the reconstruction is exact.
NoSeparatorReconstruction ==
    (chk.done /\ \A i \in 1 .. Len(chk.text) : chk.text[i] # " ")
        => Reconstruct(chk.chunks, chk.overlap) = chk.text

(***************************************************************************)
(* C13 as stated: once an ask of an owner has returned its answer, the     *)
(* history section of the owner's next ask contains that question and      *)
(* answer verbatim.                                                        *)
(***************************************************************************)
PrevTurnInPrompt ==
    \E i \in 1 .. Len(ask.prompt) :
        /\ ask.prompt[i].kind = "history"
        /\ ask.prompt[i].question = ask.prev.question
        /\ ask.prompt[i].answer = ask.prev.answer

PrevTurnStored ==
    /\ ask.prev.saved_at # 0
    /\ \E i \in 1 .. Len(chats) :
          /\ chats[i].created_at = ask.prev.saved_at
          /\ chats[i].user_id = ask.prev.user_id

\* The history lines of the prompt are the loaded turns, word for word.
HistoryVerbatim ==
    PromptAssembled =>
        /\ Len(ask.prompt) > Len(ask.history)
        /\ \A i \in 1 .. Len(ask.history) :
              /\ ask.prompt[1 + i].kind = "history"
              /\ ask.prompt[1 + i].question = ask.history[i].question
              /\ ask.prompt[1 + i].answer = ask.history[i].answer

C14_HistoryFailureNonFatal ==
    ask.memory = "unavailable" =>
        /\ ask.history = << >>
        /\ "history_unavailable" \in ask.log
        /\ ask.stage # "LoadingHistory"
        /\ ask.stage = "Failed" =>
              ask.outcome \in {"RetrievalUnavailable", "GenerationUnavailable"}
        /\ PromptAssembled =>
              ask.prompt = AssemblePrompt(<< >>, ask.refs, ask.query)
        /\ ask.stage = "Done" =>
              /\ ask.response.ok
              /\ ask.response.answer = Generated(ask.prompt, ask.query)
              /\ ask.response.references = ask.refs

C14_Witness ==
    /\ ask.memory = "unavailable"
    /\ ask.stage = "Done"
    /\ ask.response.ok
    /\ ask.refs # << >>
    /\ VisibleChats(chats, ask.user_id) # << >>

(***************************************************************************)
(* C15: when the generation call fails, the ask returns a well-formed      *)
(* response whose answer is the non-empty fallback message and which       *)
(* carries no text of the service error.                                   *)
(***************************************************************************)
C15_GenerationFallback ==
    ask.outcome = "GenerationUnavailable" =>
        /\ ask.response.ok
        /\ ask.response.answer = FALLBACK_ANSWER
        /\ ask.response.answer # "none"
        /\ ask.response.detail = << >>

(***************************************************************************)
(* C16: when saving the new chat fails after a successful generation, the  *)
(* ask still returns the generated answer and the references, and the      *)
(* failure is logged.  The response of a finished ask is the same whether  *)
(* the chat was saved or not.                                              *)
(***************************************************************************)
C16_SaveFailureNonBlocking ==
    /\ ask.stage = "Done" =>
          /\ ask.calls.save = 1
          /\ ask.response = OkResponse(Generated(ask.prompt, ask.query), ask.refs)
          /\ ~ask.stored => "save_failed" \in ask.log
    /\ ask.outcome # "SaveFailed"

C16_Witness ==
    /\ ask.stage = "Done"
    /\ ~ask.stored
    /\ "save_failed" \in ask.log
    /\ ask.response.ok
    /\ ask.response.answer = "a1"
    /\ ask.response.references # << >>

(***************************************************************************)
(* C17: an ask of an owner who has no vector in the index succeeds: its    *)
(* retrieval returns no reference, the prompt carries the no-context       *)
(* signal, and the response has references = [] and the non-empty answer   *)
(* saying that nothing relevant was found.  The empty result is not an     *)
(* error: such an ask fails only when a service call failed.               *)
(***************************************************************************)
HasNoVectors(u) == \A v \in index : v.metadata.user_id # u

C17_NoVectorsNoError ==
    HasNoVectors(ask.user_id) =>
        /\ PromptAssembled =>
              /\ ask.refs = << >>
              /\ \E i \in 1 .. Len(ask.prompt) : ask.prompt[i] = NoContextPart
        /\ ask.stage \in {"Persisting", "Done"} =>
              /\ ask.answer = NO_CONTEXT_ANSWER
              /\ ask.answer # "none"
        /\ ask.stage = "Done" =>
              /\ ask.response.ok
              /\ ask.response.references = << >>
              /\ ask.response.answer = NO_CONTEXT_ANSWER
        /\ ask.stage = "Failed" =>
              \/ ask.outcome = "RetrievalUnavailable" /\ ask.refs = << >>
                                                      /\ ask.calls.generate = 0
              \/ ask.outcome = "GenerationUnavailable" /\ ask.calls.generate = 1

C17_Witness ==
    /\ index # {}
    /\ HasNoVectors(ask.user_id)
    /\ ask.user_id = "B"
    /\ ask.stage = "Done"
    /\ ask.response.ok
    /\ ask.response.references = << >>
    /\ ask.response.answer = NO_CONTEXT_ANSWER

(***************************************************************************)
(* C18: the ingestion of a file above MAX_FILE_SIZE_MB fails with          *)
(* SizeLimitExceeded before anything is extracted, embedded or upserted:   *)
(* the request never leaves Received except to Failed, and it has stored   *)
(* no vector.  (The ingestion timeout may end it first.)                   *)
(***************************************************************************)
Oversize(q) == q.stage # "Idle" /\ FileSizeMB(q.file_url) > MAX_FILE_SIZE_MB

C18_SizeLimit ==
    \A r \in Reqs :
        Oversize(ing[r]) =>
            /\ ing[r].stage \in {"Received", "Failed"}
            /\ ing[r].stage = "Failed" =>
                  ing[r].reason \in {"SizeLimitExceeded", "Timeout"}
            /\ ing[r].chunks = 0
            /\ ing[r].embedded = 0
            /\ ing[r].attempts = 0
            /\ written[r] = {}
            /\ touched[r] = {}
            /\ ing[r].report = NoReport
            /\ DocVectors(index, ing[r].user_id, FileNameOf(ing[r].file_url)) = {}
            /\ ~ENABLED ExtractText(r)

C18_Witness ==
    /\ Oversize(ing["r1"])
    /\ ing["r1"].stage = "Failed"
    /\ ing["r1"].reason = "SizeLimitExceeded"
    /\ index # {}

(***************************************************************************)
(* C19: an ingestion that ends in Complete reports                         *)
(* vectors_stored = chunks_created = the number of chunks of the document  *)
(* (3 and 3 for the text of three chunks), and its upsert stored one       *)
(* vector for every chunk.  A request that is not Complete carries no      *)
(* success counts, and Complete is entered only from Stored, with nothing  *)
(* failed.                                                                 *)
(***************************************************************************)
ChunkCount(url) == Len(split_text(DocLen(url)))

CeilDiv(a, b) == (a + b - 1) \div b

C21_ChunkCount ==
    chk.done =>
        /\ Len(chk.text) > chk.size =>
              Len(chk.chunks) = CeilDiv(Len(chk.text) - chk.overlap,
                                        chk.size - chk.overlap)
        /\ Len(chk.text) < chk.size => Len(chk.chunks) = 1

\* On non-empty texts without a separator the count is the one of the formula.
NoSeparatorChunkCount ==
    (chk.done /\ chk.text # << >> /\ \A i \in 1 .. Len(chk.text) : chk.text[i] # " ")
        => /\ Len(chk.text) > chk.size =>
                 Len(chk.chunks) = CeilDiv(Len(chk.text) - chk.overlap,
                                           chk.size - chk.overlap)
           /\ Len(chk.text) < chk.size => Len(chk.chunks) = 1

(***************************************************************************)
(* C22: a query returns at most topK results, as many as the owner has     *)
(* when the owner has fewer, without repetition, and the similarity scores *)
(* do not increase along the returned list; no vector left out scores      *)
(* higher than one returned.                                               *)
(***************************************************************************)
OwnedBy(a) == { v \in index : v.metadata.user_id = a }

C22_TopKSorted ==
    \A a \in Users, q \in QueryVecs, k \in TopKs :
        LET res == query_vectors(index, a, q, k)
        IN  /\ Len(res) <= k
            /\ Len(res) = IF Cardinality(OwnedBy(a)) < k
                          THEN Cardinality(OwnedBy(a)) ELSE k
            /\ \A i, j \in 1 .. Len(res) : i # j => res[i] # res[j]
            /\ \A i \in 1 .. (Len(res) - 1) :
                  Score(q, res[i].values) >= Score(q, res[i + 1].values)
            /\ \A v \in OwnedBy(a) :
                  (\A i \in 1 .. Len(res) : res[i] # v)
                      => \A i \in 1 .. Len(res) :
                            Score(q, res[i].values) >= Score(q, v.values)

\* A has more vectors than topK = 2, and the two returned differ in score.
C22_Witness ==
    /\ Cardinality(OwnedBy("A")) > 2
    /\ Len(query_vectors(index, "A", 0, 2)) = 2
    /\ Score(0, query_vectors(index, "A", 0, 2)[1].values)
          > Score(0, query_vectors(index, "A", 0, 2)[2].values)

(***************************************************************************)
(* C23: a clear of the history of one owner removes every chat of that     *)
(* owner and nothing else: right after it the owner's history listing and  *)
(* context window are empty and the rows of every other owner are what     *)
(* they were, in the same order.                                           *)
(***************************************************************************)
RowsOf(rows, u) ==
    LET Owned(row) == row.user_id = u
    IN  SelectSeq(rows, Owned)

C23_ClearHistoryFrame ==
    [][ Len(chats') < Len(chats) =>
          \E a \in Users :
              /\ RowsOf(chats, a) # << >>
              /\ RowsOf(chats', a) = << >>
              /\ get_all_chats(chats', a, MAX_CHAT_HISTORY) = << >>
              /\ get_recent_chats(chats', a, CHAT_CONTEXT_WINDOW) = << >>
              /\ \A b \in Users \ {a} : RowsOf(chats', b) = RowsOf(chats, b)
              /\ Len(chats') = Len(chats) - Len(RowsOf(chats, a)) ]_vars

\* A's seeded chats are gone, B's seeded chat is still there.
C23_Witness ==
    /\ RowsOf(chats, "A") = << >>
    /\ RowsOf(chats, "B") # << >>
    /\ RowsOf(chats, "B")[1].created_at <= SeedTurns
    /\ get_all_chats(chats, "A", MAX_CHAT_HISTORY) = << >>

(***************************************************************************)
(* Properties of the chat page.                                            *)
(***************************************************************************)
\* C24: when the history request returns a non-2xx status or throws, the
\* page shows exactly the welcome message and isLoadingHistory is false; once
\* the request has settled, in whatever way, the page is not loading, and a
\* started request does settle.
C24_HistoryFallback ==
    /\ [][ (page.hreq = "pending" /\ page'.hreq \in {"not_ok", "threw"})
             => /\ page'.messages = << WelcomeMessage >>
                /\ ~page'.isLoadingHistory ]_vars
    /\ [](page.hreq \in {"loaded", "not_ok", "threw"} => ~page.isLoadingHistory)
    /\ [](page.hreq = "pending" => <>(~page.isLoadingHistory))

C24_Witness ==
    /\ page.hreq = "threw"
    /\ page.messages = << WelcomeMessage >>
    /\ ~page.isLoadingHistory

\* C25: at most one POST /api/ask is in flight; a submit made while one is
\* in flight sends nothing and adds no message.
C25_OneAskInFlight ==
    /\ [](Cardinality(page.areq) <= 1)
    /\ [](page.posts = page.sent)
    /\ [][ (page.areq # {} /\ page'.submits = page.submits + 1)
             => /\ page'.areq = page.areq
                /\ page'.posts = page.posts
                /\ page'.messages = page.messages
                /\ page'.isLoading ]_vars

\* A submit with text in the input was ignored while a request was in flight.
C25_Witness ==
    /\ page.areq # {}
    /\ page.typed
    /\ page.submits > page.sent
    /\ page.sent = 2

\* C26: every accepted question gets exactly one assistant message, the
\* answer or the fixed error text, when its request settles, and isLoading is
\* false then; it is true exactly while a request is in flight.
C26_OneReplyPerQuestion ==
    /\ [](\A q \in 1 .. MaxSubmits : page.replies[q] <= 1)
    /\ [](page.isLoading <=> page.areq # {})
    /\ [][ \A q \in 1 .. MaxSubmits :
              (q \in page.areq /\ q \notin page'.areq)
                  => /\ Len(page'.messages) = Len(page.messages) + 1
                     /\ page'.messages[Len(page'.messages)]
                           \in {AnswerMessage(q), ErrorMessage(q)}
                     /\ page'.replies[q] = 1
                     /\ ~page'.isLoading ]_vars
    /\ \A q \in 1 .. MaxSubmits :
          [](q \in page.areq
               => <>(q \notin page.areq /\ page.replies[q] = 1 /\ ~page.isLoading))

\* Three questions were accepted and answered, one of them with the error text.
C26_Witness ==
    /\ page.sent = 3
    /\ page.areq = {}
    /\ \A q \in 1 .. 3 : page.replies[q] = 1
    /\ \E i \in 1 .. Len(page.messages) : page.messages[i] = ErrorMessage(2)
    /\ ~page.isLoading

\* C27: once a clear and the asks around it have settled, the message list
\* holds no question accepted before the clear and no answer to one.
C27_ClearWins ==
    (page.areq = {} /\ page.creq = {} /\ page.stale # {})
        => \A i \in 1 .. Len(page.messages) : page.messages[i].q \notin page.stale

(***************************************************************************)
(* Properties of the flashcards page.                                      *)
(***************************************************************************)
\* C28: whenever the list of the current mode is non-empty,
\* currentCardIndex is an index of it.
C28_IndexValid ==
    (~cards.isLoading /\ currentFlashcards(cards) > 0)
        => /\ cards.currentCardIndex >= 0
           /\ cards.currentCardIndex < currentFlashcards(cards)

\* The index is valid whenever the list of all cards is at least as long as
\* the list of due cards.
IndexValidWhenDueWithinAll ==
    (~cards.isLoading /\ currentFlashcards(cards) > 0 /\ cards.due <= cards.all)
        => /\ cards.currentCardIndex >= 0
           /\ cards.currentCardIndex < currentFlashcards(cards)

\* C29: in one pass through the due list each due card gets at most one
\* review POST, and a successful review in review mode moves the page one
\* card on (or ends the pass on the last card).
C29_OneReviewPerCard ==
    /\ [](\A k \in 0 .. MaxCards : cards.posts[k] <= 1)
    /\ [][ (Cardinality(cards'.reqs) < Cardinality(cards.reqs)
             /\ cards.mode = "review"
             /\ << cards'.currentCardIndex, cards'.mode >>
                   # << cards.currentCardIndex, cards.mode >>)
            => \/ cards'.mode = "review"
                    /\ cards'.currentCardIndex = cards.currentCardIndex + 1
               \/ cards'.mode = "browse"
                    /\ cards.currentCardIndex = cards.due - 1 ]_vars

\* C30: every POST /api/ingest that handleUpload sent is for a file whose
\* object is in the user-docs bucket and whose row is in uploads, both when
\* the request is sent and after; an invocation whose storage upload or
\* insert failed sent no ingest request and did not call onUploadSuccess;
\* when an invocation ends, uploading is false.
StoredAndRecorded(u, q) ==
    /\ [ path |-> q.path, file |-> q.file ] \in u.bucket
    /\ [ filename |-> q.file, file_url |-> q.path ] \in u.rows

C30_IngestAfterStoreAndInsert ==
    /\ [](/\ \A i \in DOMAIN upl.posts : StoredAndRecorded(upl, upl.posts[i])
          /\ \A i \in DOMAIN upl.done :
                upl.done[i].failed \in { "storage", "insert" }
                    => ~ upl.done[i].posted /\ ~ upl.done[i].notified
          /\ (upl.call.failed \in { "storage", "insert" }
                    => ~ upl.call.posted /\ ~ upl.call.notified)
          /\ Len(upl.posts) = Cardinality({ i \in DOMAIN upl.done : upl.done[i].posted })
                                + (IF upl.call.posted THEN 1 ELSE 0)
          /\ upl.notified = Cardinality({ i \in DOMAIN upl.done : upl.done[i].notified })
          /\ (upl.call.pc = "idle" => ~ upl.uploading))
    /\ [][ /\ Len(upl'.posts) > Len(upl.posts)
              => /\ upl.call.pc = "insert"
                 /\ [ path |-> upl.call.path, file |-> upl.call.file ] \in upl.bucket
                 /\ StoredAndRecorded(upl', upl'.posts[Len(upl'.posts)])
           /\ Len(upl'.done) > Len(upl.done) => ~ upl'.uploading ]_vars

\* One invocation failed at the insert and another sent its ingest request
\* and called onUploadSuccess; no upload is running.
C30_Witness ==
    /\ ~ upl.uploading
    /\ \E i, j \in DOMAIN upl.done :
          /\ upl.done[i].failed = "insert"
          /\ upl.done[j].posted /\ upl.done[j].notified

====
